---- MODULE Spec2Model ----
(***************************************************************************)
(* A model of carton/cart.py: the session-backed shopping cart (CartItem   *)
(* and Cart).  A call is one step; a call that raises keeps the in-memory  *)
(* effects it had before the exception, exactly as the Python code does.   *)
(*                                                                         *)
(* Products are Django model instances: two of them are equal when they    *)
(* have the same class and the same primary key, and the instance that     *)
(* `objects.get(pk=product_source_id)` returns for a product's own class   *)
(* is equal to that product.  Manager.get raises DoesNotExist when no row  *)
(* matches.                                                                *)
(***************************************************************************)
EXTENDS Integers, Sequences, FiniteSets, TLC

\* ------------------------------------------------------------------ bounds
MaxQty == 2

\* --------------------------------------------------------------- universe
\* settings.PRODUCT_TYPE.Resource and one other product type.
Resource == "resource"
Course == "course"
ProductTypes == {Resource, Course}

\* The product instances the callers hold: [cls, id].  product.product_type
\* is cls, product.product_source_id, product.pk and product.id are id.
AllProducts ==
  { [cls |-> Resource, id |-> 1],
    [cls |-> Resource, id |-> 2],
    [cls |-> Course,   id |-> 1] }

\* the products that are deleted from the database at some time
Deletable == { [cls |-> Resource, id |-> 2] }

NoProduct == [cls |-> "none", id |-> 0]

\* Decimal values: coefficient and exponent, as decimal.Decimal keeps them.
Prices ==
  { [coef |-> 999, exp |-> -2],
    [coef |-> 50,  exp |-> -1] }

\* the price at which the callers add a product that is not in the cart
ListPrice(product) ==
  IF product.id = 1 THEN [coef |-> 999, exp |-> -2] ELSE [coef |-> 50, exp |-> -1]

\* price=None is the empty tuple, a given price is <<d>>.
None == << >>

\* the price arguments of add: none, the list price of the product, or any
\* price when the product is already among the `present` products
PriceArgs(present, product) ==
  {None} \cup { <<d>> : d \in IF product \in present THEN Prices ELSE {ListPrice(product)} }

\* the cart objects: cart 1 is the cart of the request; cart 2 is a second
\* cart built on the same session by a concurrent request (SpecTwo only)
CartIds == {1, 2}
SingleCart == {1}

\* carton_settings.CART_SESSION_KEY
CART_SESSION_KEY == "CART"

VARIABLES
  items,     \* items[c]: Cart._items_dict of cart object c (key -> CartItem)
  alive,     \* alive[c]: cart object c exists (its constructor returned)
  session,   \* the session: a mapping that has the key CART_SESSION_KEY or not
  modified,  \* session.modified
  catalog,   \* the products that exist in the database
  last,      \* the last call: operation, arguments, branch taken and outcome
  step       \* the position in the scenario of SpecScenario (0 elsewhere)

vars == << items, alive, session, modified, catalog, last, step >>

\* ------------------------------------------------------- Python dictionaries
EmptyDict == [k \in {} |-> 0]
DictSet(d, k, v) == [x \in (DOMAIN d) \cup {k} |-> IF x = k THEN v ELSE d[x]]
DictDel(d, k) == [x \in (DOMAIN d) \ {k} |-> d[x]]

\* ------------------------------------------------------------ str / format
DigitChars == << "0", "1", "2", "3", "4", "5", "6", "7", "8", "9" >>

RECURSIVE IntStr(_)
IntStr(n) ==
  IF n < 10 THEN << DigitChars[n + 1] >>
  ELSE IntStr(n \div 10) \o << DigitChars[(n % 10) + 1] >>

DigitVal(ch) == (CHOOSE i \in 1..10 : DigitChars[i] = ch) - 1

RECURSIVE StrInt(_)
StrInt(s) ==
  IF Len(s) = 0 THEN 0
  ELSE 10 * StrInt(SubSeq(s, 1, Len(s) - 1)) + DigitVal(s[Len(s)])

RECURSIVE ZeroPad(_, _)
ZeroPad(s, n) == IF Len(s) >= n THEN s ELSE ZeroPad(<< "0" >> \o s, n)

\* "{}-{}".format(product_type, id)
FormatKey(product_type, id) == << product_type, "-" >> \o IntStr(id)

\* str(Decimal): the digits of the coefficient with the point -exp places
\* from the right (non-negative values, exponent <= 0).
DecimalStr(d) ==
  IF d.exp = 0 THEN IntStr(d.coef)
  ELSE LET n == 0 - d.exp
           s == ZeroPad(IntStr(d.coef), n + 1)
       IN  SubSeq(s, 1, Len(s) - n) \o << "." >> \o SubSeq(s, Len(s) - n + 1, Len(s))

\* Decimal(string)
PointAt(s) == IF \E i \in 1..Len(s) : s[i] = "."
              THEN CHOOSE i \in 1..Len(s) : s[i] = "."
              ELSE 0

ParseDecimal(s) ==
  LET p == PointAt(s)
  IN  IF p = 0 THEN [coef |-> StrInt(s), exp |-> 0]
      ELSE [coef |-> StrInt(SubSeq(s, 1, p - 1) \o SubSeq(s, p + 1, Len(s))),
            exp  |-> 0 - (Len(s) - p)]

\* ------------------------------------------------------------------ CartItem
\* product.title for a Resource, product.name otherwise
DisplayName(product, product_type) ==
  IF product_type = Resource THEN << "title", product.id >>
  ELSE << "name", product.id >>

\* CartItem.__init__
NewCartItem(product, product_type, quantity, price) ==
  [ name         |-> DisplayName(product, product_type),
    product      |-> product,
    product_type |-> product_type,
    quantity     |-> quantity,
    price        |-> ParseDecimal(DecimalStr(price)) ]

\* CartItem.unique_id
UniqueId(item) == FormatKey(item.product_type, item.product.id)

\* Decimal * int
DecimalTimes(d, n) == [coef |-> d.coef * n, exp |-> d.exp]

\* CartItem.subtotal
Subtotal(item) == DecimalTimes(item.price, item.quantity)

RECURSIVE Pow10(_)
Pow10(n) == IF n = 0 THEN 1 ELSE 10 * Pow10(n - 1)

\* Decimal + Decimal: exact, at the smaller exponent
DecimalPlus(a, b) ==
  LET e == IF a.exp < b.exp THEN a.exp ELSE b.exp
  IN  [coef |-> a.coef * Pow10(a.exp - e) + b.coef * Pow10(b.exp - e), exp |-> e]

\* Decimal == Decimal compares the values, not the exponents
DecimalEq(a, b) ==
  LET e == IF a.exp < b.exp THEN a.exp ELSE b.exp
  IN  a.coef * Pow10(a.exp - e) = b.coef * Pow10(b.exp - e)

\* product.__class__.__module__ + "." + product.__class__.__name__
ClassPath(cls) ==
  IF cls = Resource THEN "resources.models.Resource" ELSE "courses.models.Course"

\* getattr(import_module(module), package) after rsplit('.', 1)
ImportClass(path) == CHOOSE cls \in ProductTypes : ClassPath(cls) = path

\* CartItem.to_dict raises NameError for every item that is not a Resource:
\* the else arm reads the undefined name `product`.
ToDictRaises(item) == item.product_type # Resource

ToDict(item) ==
  [ name              |-> << "title", item.product.id >>,
    product_module    |-> ClassPath(item.product.cls),
    product_type      |-> item.product_type,
    product_source_id |-> item.product.id,
    quantity          |-> item.quantity,
    price             |-> DecimalStr(item.price) ]

\* ---------------------------------------------------------------- Cart reads
\* Cart.items
Items(its) == { its[k] : k \in DOMAIN its }

\* Cart.products
Products(its) == { its[k].product : k \in DOMAIN its }

\* a membership test that compares primary keys only
ContainsByPk(its, product) == product.id \in { q.id : q \in Products(its) }

\* Cart.__contains__ and the `product in self.products` tests
Contains(its, product) == product \in Products(its)

\* Cart.unique_count
UniqueCount(its) == Cardinality(DOMAIN its)

\* Cart.is_empty
IsEmpty(its) == UniqueCount(its) = 0

RECURSIVE SumQty(_, _)
SumQty(its, ks) ==
  IF ks = {} THEN 0
  ELSE LET k == CHOOSE x \in ks : TRUE
       IN  its[k].quantity + SumQty(its, ks \ {k})

\* Cart.count
Count(its) == SumQty(its, DOMAIN its)

RECURSIVE SumSubtotals(_, _)
SumSubtotals(its, ks) ==
  IF ks = {} THEN [coef |-> 0, exp |-> 0]
  ELSE LET k == CHOOSE x \in ks : TRUE
       IN  DecimalPlus(Subtotal(its[k]), SumSubtotals(its, ks \ {k}))

\* Cart.total
Total(its) == SumSubtotals(its, DOMAIN its)

\* a serialization keyed by the product pk alone, as the docstring describes
CartSerializableByPk(its) ==
  LET ids == { IntStr(its[k].product.id) : k \in DOMAIN its }
  IN  [ u \in ids |-> ToDict(CHOOSE it \in Items(its) : IntStr(it.product.id) = u) ]

\* Cart.cart_serializable
SerializableRaises(its) == \E k \in DOMAIN its : ToDictRaises(its[k])

CartSerializable(its) ==
  LET ids == { UniqueId(its[k]) : k \in DOMAIN its }
  IN  [ u \in ids |-> ToDict(CHOOSE it \in Items(its) : UniqueId(it) = u) ]

\* an update_session that forgets to flag the session
UpdateSessionNoFlag(its, sess, mod) ==
  IF SerializableRaises(its)
  THEN [session |-> sess, modified |-> mod, outcome |-> "NameError"]
  ELSE [session  |-> DictSet(sess, CART_SESSION_KEY, CartSerializable(its)),
        modified |-> mod,
        outcome  |-> "ok"]

\* an update_session that keeps the entries another cart wrote
UpdateSessionMerge(its, sess, mod) ==
  IF SerializableRaises(its)
  THEN [session |-> sess, modified |-> mod, outcome |-> "NameError"]
  ELSE LET new == CartSerializable(its)
           old == IF CART_SESSION_KEY \in DOMAIN sess
                  THEN sess[CART_SESSION_KEY] ELSE EmptyDict
           all == [k \in DOMAIN old \cup DOMAIN new |->
                     IF k \in DOMAIN new THEN new[k] ELSE old[k]]
       IN  [session  |-> DictSet(sess, CART_SESSION_KEY, all),
            modified |-> TRUE,
            outcome  |-> "ok"]

\* Cart.update_session: the result of the call on (its, sess, mod)
UpdateSession(its, sess, mod) ==
  IF SerializableRaises(its)
  THEN [session |-> sess, modified |-> mod, outcome |-> "NameError"]
  ELSE [session  |-> DictSet(sess, CART_SESSION_KEY, CartSerializable(its)),
        modified |-> TRUE,
        outcome  |-> "ok"]

\* instance.objects.get(pk=...): the row exists or DoesNotExist is raised
Exists(cat, cls, pk) == [cls |-> cls, id |-> pk] \in cat

\* a dictionary key that is the integer product.pk: no composite key, which
\* is a string, is equal to it
IntKey(pk) == << "int" >> \o IntStr(pk)

\* ------------------------------------------------------- results of a call
\* the call ends in update_session
Done(its, sess, mod, branch) ==
  LET u == UpdateSession(its, sess, mod)
  IN  [items |-> its, session |-> u.session, modified |-> u.modified,
       branch |-> branch, outcome |-> u.outcome]

\* the call raises err, or returns, without reaching update_session
Return(its, sess, mod, branch, outcome) ==
  [items |-> its, session |-> sess, modified |-> mod,
   branch |-> branch, outcome |-> outcome]

\* an add that overwrites the quantity
AddQuantityOverwrite(old, quantity) == quantity

\* `quantity += quantity` of Cart.add
AddQuantity(old, quantity) == old + quantity

\* an add that also takes the price argument, when given, for an item that
\* is already in the cart
AddToExistingReprices(item, price, quantity) ==
  IF price = None THEN [item EXCEPT !.quantity = AddQuantity(@, quantity)]
  ELSE [item EXCEPT !.quantity = AddQuantity(@, quantity),
                    !.price = ParseDecimal(DecimalStr(price[1]))]

\* the present branch of Cart.add: the quantity grows, the price argument is
\* not read
AddToExisting(item, price, quantity) ==
  [item EXCEPT !.quantity = AddQuantity(@, quantity)]

\* Cart.add(product, price, quantity)
AddResult(its, sess, mod, cat, product, price, quantity) ==
  LET key == FormatKey(product.cls, product.id)
  IN  IF quantity < 1
      THEN Return(its, sess, mod, "none", "ValueError_quantity")
      ELSE IF Contains(its, product)
      THEN IF key \notin DOMAIN its
           THEN Return(its, sess, mod, "present", "KeyError")
           ELSE Done([its EXCEPT ![key] = AddToExisting(@, price, quantity)],
                     sess, mod, "present")
      ELSE IF price = None
      THEN Return(its, sess, mod, "absent", "ValueError_price")
      ELSE IF ~Exists(cat, product.cls, product.id)
      THEN Return(its, sess, mod, "absent", "DoesNotExist")
      ELSE Done(DictSet(its, key, NewCartItem(product, product.cls, quantity, price[1])),
                sess, mod, "absent")

\* a remove that saves the session whether or not the product was in the cart
RemoveResultAlwaysSaves(its, sess, mod, product, product_type) ==
  LET key == FormatKey(product_type, product.id)
  IN  IF Contains(its, product)
      THEN IF key \notin DOMAIN its
           THEN Return(its, sess, mod, "present", "KeyError")
           ELSE Done(DictDel(its, key), sess, mod, "present")
      ELSE Done(its, sess, mod, "absent")

\* Cart.remove(product, product_type)
RemoveResult(its, sess, mod, product, product_type) ==
  LET key == FormatKey(product_type, product.id)
  IN  IF Contains(its, product)
      THEN IF key \notin DOMAIN its
           THEN Return(its, sess, mod, "present", "KeyError")
           ELSE Done(DictDel(its, key), sess, mod, "present")
      ELSE Return(its, sess, mod, "absent", "ok")

\* Cart.remove_single(product, product_type)
RemoveSingleResult(its, sess, mod, product, product_type) ==
  LET key == FormatKey(product_type, product.id)
  IN  IF Contains(its, product)
      THEN IF key \notin DOMAIN its
           THEN Return(its, sess, mod, "present", "KeyError")
           ELSE IF its[key].quantity <= 1
           THEN Done(DictDel(its, key), sess, mod, "present")
           ELSE Done([its EXCEPT ![key].quantity = @ - 1], sess, mod, "present")
      ELSE Return(its, sess, mod, "absent", "ok")

\* a clear that empties the items and does not save the session
ClearResultNoSave(its, sess, mod) == Return(EmptyDict, sess, mod, "none", "ok")

\* Cart.clear()
ClearResult(its, sess, mod) == Done(EmptyDict, sess, mod, "none")

\* a set_quantity that adds to the previous quantity
SetQuantityAdds(old, quantity) == old + quantity

\* `quantity = quantity` of Cart.set_quantity
SetQuantityValue(old, quantity) == quantity

\* Cart.set_quantity(product, quantity)
SetQuantityResult(its, sess, mod, product, quantity) ==
  LET key == FormatKey(product.cls, product.id)
  IN  IF quantity < 0
      THEN Return(its, sess, mod, "none", "ValueError_quantity")
      ELSE IF Contains(its, product)
      THEN IF key \notin DOMAIN its
           THEN Return(its, sess, mod, "present", "KeyError")
           ELSE LET its2 == [its EXCEPT ![key].quantity = SetQuantityValue(@, quantity)]
                IN  IF its2[key].quantity < 1
                    THEN IF IntKey(product.id) \notin DOMAIN its2
                         THEN Return(its2, sess, mod, "present", "KeyError")
                         ELSE Done(DictDel(its2, IntKey(product.id)), sess, mod, "present")
                    ELSE Done(its2, sess, mod, "present")
      ELSE Return(its, sess, mod, "absent", "ok")

\* Cart.__init__(session): the items rebuilt from the session, or DoesNotExist
StoredProduct(v) == [cls |-> ImportClass(v.product_module), id |-> v.product_source_id]

\* a constructor that writes the entries it could resolve back to the session
ConstructResultWritesBack(sess, cat) ==
  IF CART_SESSION_KEY \in DOMAIN sess
  THEN LET rep == sess[CART_SESSION_KEY]
           kept == { k \in DOMAIN rep : StoredProduct(rep[k]) \in cat }
       IN  [items |-> [k \in kept |->
                         NewCartItem(StoredProduct(rep[k]), rep[k].product_type,
                                     rep[k].quantity, ParseDecimal(rep[k].price))],
            session |-> DictSet(sess, CART_SESSION_KEY, [k \in kept |-> rep[k]]),
            outcome |-> "ok"]
  ELSE [items |-> EmptyDict, session |-> sess, outcome |-> "ok"]

\* the constructor reads the session and never assigns to it
ConstructResult(sess, cat) ==
  IF CART_SESSION_KEY \in DOMAIN sess
  THEN LET rep == sess[CART_SESSION_KEY]
       IN  IF \E k \in DOMAIN rep : StoredProduct(rep[k]) \notin cat
           THEN [items |-> EmptyDict, session |-> sess, outcome |-> "DoesNotExist"]
           ELSE [items |-> [k \in DOMAIN rep |->
                             NewCartItem(StoredProduct(rep[k]), rep[k].product_type,
                                         rep[k].quantity, ParseDecimal(rep[k].price))],
                 session |-> sess,
                 outcome |-> "ok"]
  ELSE [items |-> EmptyDict, session |-> sess, outcome |-> "ok"]

\* ------------------------------------------------------------------ actions
CallEffect(op, c, product, quantity, r) ==
  /\ items' = [items EXCEPT ![c] = r.items]
  /\ session' = r.session
  /\ modified' = r.modified
  /\ last' = [op |-> op, cart |-> c, product |-> product, quantity |-> quantity,
              branch |-> r.branch, outcome |-> r.outcome]
  /\ UNCHANGED << alive, catalog >>

Call(op, c, product, quantity, r) ==
  /\ CallEffect(op, c, product, quantity, r)
  /\ UNCHANGED step

Add(c, product, price, quantity) ==
  /\ alive[c]
  /\ \A k \in DOMAIN items[c] :
       items[c][k].product = product => items[c][k].quantity + quantity <= MaxQty
  /\ Call("add", c, product, quantity,
          AddResult(items[c], session, modified, catalog, product, price, quantity))

Remove(c, product, product_type) ==
  /\ alive[c]
  /\ Call("remove", c, product, 0,
          RemoveResult(items[c], session, modified, product, product_type))

RemoveSingle(c, product, product_type) ==
  /\ alive[c]
  /\ Call("remove_single", c, product, 0,
          RemoveSingleResult(items[c], session, modified, product, product_type))

Clear(c) ==
  /\ alive[c]
  /\ Call("clear", c, NoProduct, 0,
          ClearResult(items[c], session, modified))

SetQuantity(c, product, quantity) ==
  /\ alive[c]
  /\ Call("set_quantity", c, product, quantity,
          SetQuantityResult(items[c], session, modified, product, quantity))

\* a new request builds the cart object again from the session
Construct(c) ==
  LET r == ConstructResult(session, catalog)
  IN  /\ items' = [items EXCEPT ![c] = r.items]
      /\ alive' = [alive EXCEPT ![c] = (r.outcome = "ok")]
      /\ last' = [op |-> "construct", cart |-> c, product |-> NoProduct,
                  quantity |-> 0, branch |-> "none", outcome |-> r.outcome]
      /\ session' = r.session
      /\ UNCHANGED << modified, catalog, step >>

\* the product is deleted from the database, outside the cart
DeleteProduct(product) ==
  /\ product \in catalog \cap Deletable
  /\ catalog' = catalog \ {product}
  /\ UNCHANGED << items, alive, session, modified, last, step >>

Init ==
  /\ items = [c \in CartIds |-> EmptyDict]
  /\ alive = [c \in CartIds |-> c \in SingleCart]
  /\ session = EmptyDict
  /\ modified = FALSE
  /\ catalog = AllProducts
  /\ last = [op |-> "construct", cart |-> 1, product |-> NoProduct,
             quantity |-> 0, branch |-> "none", outcome |-> "ok"]
  /\ step = 0

Next ==
  \/ \E c \in SingleCart, product \in AllProducts, quantity \in 0..MaxQty :
       \E price \in PriceArgs(Products(items[c]), product) :
         Add(c, product, price, quantity)
  \/ \E c \in SingleCart, product \in AllProducts, product_type \in ProductTypes :
       Remove(c, product, product_type)
  \/ \E c \in SingleCart, product \in AllProducts, product_type \in ProductTypes :
       RemoveSingle(c, product, product_type)
  \/ \E c \in SingleCart : Clear(c)
  \/ \E c \in SingleCart, product \in AllProducts, quantity \in (0 - 1)..MaxQty :
       SetQuantity(c, product, quantity)
  \/ \E c \in SingleCart : Construct(c)
  \/ \E product \in Deletable : DeleteProduct(product)

Spec == Init /\ [][Next]_vars

\* ---------------------------------------------------------------- scenario
\* The scenario of one request on an empty cart: add(A, price=p, quantity=q),
\* add(A, quantity=1) without a price, remove_single(A), remove(A), for each
\* product A of the database, each price p and each first quantity q.  The
\* cart is empty because the session has no entry yet or because an earlier
\* request cleared it; rows of the database may be deleted meanwhile.
ScenarioInit ==
  /\ items = [c \in CartIds |-> EmptyDict]
  /\ alive = [c \in CartIds |-> c \in SingleCart]
  /\ \/ session = EmptyDict /\ modified = FALSE
     \/ session = DictSet(EmptyDict, CART_SESSION_KEY, EmptyDict) /\ modified = TRUE
  /\ catalog = AllProducts
  /\ last = [op |-> "construct", cart |-> 1, product |-> NoProduct,
             quantity |-> 0, branch |-> "none", outcome |-> "ok"]
  /\ step = 0

ScenarioAdd(A, p, q) ==
  /\ step = 0
  /\ A \in catalog
  /\ step' = 1
  /\ CallEffect("add", 1, A, q,
                AddResult(items[1], session, modified, catalog, A, << p >>, q))

ScenarioAddAgain ==
  /\ step = 1
  /\ step' = 2
  /\ CallEffect("add", 1, last.product, 1,
                AddResult(items[1], session, modified, catalog, last.product, None, 1))

ScenarioRemoveSingle ==
  /\ step = 2
  /\ step' = 3
  /\ CallEffect("remove_single", 1, last.product, 0,
                RemoveSingleResult(items[1], session, modified,
                                   last.product, last.product.cls))

ScenarioRemove ==
  /\ step = 3
  /\ step' = 4
  /\ CallEffect("remove", 1, last.product, 0,
                RemoveResult(items[1], session, modified,
                             last.product, last.product.cls))

ScenarioNext ==
  \/ \E A \in AllProducts, p \in Prices, q \in 1..MaxQty : ScenarioAdd(A, p, q)
  \/ ScenarioAddAgain
  \/ ScenarioRemoveSingle
  \/ ScenarioRemove
  \/ \E product \in Deletable : DeleteProduct(product)

SpecScenario == ScenarioInit /\ [][ScenarioNext]_vars

\* --------------------------------------------------------------- two carts
\* Two Cart objects constructed from the same session and session key, whose
\* calls interleave in any order, on the products of the Resource class, each
\* added at its list price; no row of the database is deleted.
TwoProducts == {product \in AllProducts : product.cls = Resource}

TwoInit ==
  /\ items = [c \in CartIds |-> EmptyDict]
  /\ alive = [c \in CartIds |-> TRUE]
  /\ session = EmptyDict
  /\ modified = FALSE
  /\ catalog = AllProducts
  /\ last = [op |-> "construct", cart |-> 1, product |-> NoProduct,
             quantity |-> 0, branch |-> "none", outcome |-> "ok"]
  /\ step = 0

TwoNext ==
  \/ \E c \in CartIds, product \in TwoProducts, quantity \in 0..MaxQty :
       Add(c, product, << ListPrice(product) >>, quantity)
  \/ \E c \in CartIds, product \in TwoProducts, product_type \in ProductTypes :
       Remove(c, product, product_type)
  \/ \E c \in CartIds, product \in TwoProducts, product_type \in ProductTypes :
       RemoveSingle(c, product, product_type)
  \/ \E c \in CartIds : Clear(c)
  \/ \E c \in CartIds, product \in TwoProducts, quantity \in (0 - 1)..MaxQty :
       SetQuantity(c, product, quantity)
  \/ \E c \in CartIds : Construct(c)

SpecTwo == TwoInit /\ [][TwoNext]_vars

TypeOK ==
  /\ \A c \in CartIds : \A k \in DOMAIN items[c] : items[c][k].quantity \in 0..MaxQty
  /\ modified \in BOOLEAN
  /\ catalog \subseteq AllProducts

\* ------------------------------------------------------------------- claims
KeyOf(product) == FormatKey(product.cls, product.id)
MutatingOps == {"add", "remove", "remove_single", "set_quantity", "clear"}

\* The step is a call of the operation that last' records, on the cart and
\* with the product and quantity that last' records: DeleteProduct is the only
\* step that changes the catalog, and every other step sets last to its own
\* operation (StepsAreCalls states this, and is checked with the claims).
CallStep(op) == last'.op = op /\ catalog' = catalog

AddStep == CallStep("add")
RemoveStep == CallStep("remove")
RemoveSingleStep == CallStep("remove_single")
SetQuantityStep == CallStep("set_quantity")
ConstructStep == CallStep("construct")

AddNoPriceStep ==
  /\ AddStep
  /\ Add(last'.cart, last'.product, None, last'.quantity)

StepsAreCalls ==
  [][ /\ AddStep => \E price \in PriceArgs(Products(items[last'.cart]), last'.product) :
                      Add(last'.cart, last'.product, price, last'.quantity)
      /\ RemoveStep => \E t \in ProductTypes : Remove(last'.cart, last'.product, t)
      /\ RemoveSingleStep
           => \E t \in ProductTypes : RemoveSingle(last'.cart, last'.product, t)
      /\ SetQuantityStep => SetQuantity(last'.cart, last'.product, last'.quantity)
      /\ ConstructStep => Construct(last'.cart)
      /\ CallStep("clear") => Clear(last'.cart) ]_vars

\* C1: in every reachable state every key of the item mapping equals the
\* unique_id of the item stored under it and no stored item has quantity < 1.
C1_KeysAndQuantities ==
  \A c \in CartIds : \A k \in DOMAIN items[c] :
    /\ k = UniqueId(items[c][k])
    /\ items[c][k].quantity >= 1

StoreMatchesItems(c) ==
  /\ CART_SESSION_KEY \in DOMAIN session
  /\ session[CART_SESSION_KEY] = CartSerializable(items[c])
  /\ modified

\* C2 as stated: after every mutating call that returns without an error the
\* session entry is the serialization of the items and the session is flagged.
C2_EverySuccessfulCallWrites ==
  (last.op \in MutatingOps /\ last.outcome = "ok") => StoreMatchesItems(last.cart)

\* C2, amended: after every add or clear, and every remove, remove_single or
\* set_quantity for a product that is in the cart, that returns without an
\* error, the session entry is the serialization of the items and the session
\* is flagged modified.
C2_SuccessfulWriteMatches ==
  (/\ last.op \in MutatingOps
   /\ last.outcome = "ok"
   /\ (last.op \in {"add", "clear"} \/ last.branch = "present"))
  => StoreMatchesItems(last.cart)

C2_Witness ==
  /\ last.op = "remove_single"
  /\ last.branch = "present"
  /\ last.outcome = "ok"
  /\ UniqueCount(items[1]) = 2
  /\ StoreMatchesItems(1)

\* C3: set_quantity(p, 0) for a product p in the cart returns without an error
\* and removes p's entry: the key is gone, contains(p) is false and
\* unique_count has dropped by 1.
C3_SetQuantityZeroRemoves ==
  [][ (SetQuantityStep /\ last'.quantity = 0
         /\ Contains(items[last'.cart], last'.product))
      => LET c == last'.cart
             p == last'.product
         IN  /\ last'.outcome = "ok"
             /\ KeyOf(p) \notin DOMAIN items'[c]
             /\ ~Contains(items'[c], p)
             /\ UniqueCount(items'[c]) = UniqueCount(items[c]) - 1 ]_vars

\* C4: set_quantity(p, n) with n >= 1 for a product p in the cart leaves p's
\* entry with quantity exactly n, and count changes by n minus the previous
\* quantity of p.
C4_SetQuantityExact ==
  [][ (SetQuantityStep /\ last'.quantity >= 1
         /\ Contains(items[last'.cart], last'.product))
      => LET c == last'.cart
             k == KeyOf(last'.product)
             n == last'.quantity
         IN  /\ k \in DOMAIN items'[c]
             /\ items'[c][k].quantity = n
             /\ Count(items'[c]) = Count(items[c]) + n - items[c][k].quantity ]_vars

C4_Witness ==
  /\ last.op = "set_quantity"
  /\ last.branch = "present"
  /\ last.quantity = 2
  /\ KeyOf(last.product) \in DOMAIN items[1]
  /\ items[1][KeyOf(last.product)].quantity = 2
  /\ UniqueCount(items[1]) = 2

\* C5: after an add with quantity q >= 1 that returns without an error, count
\* is the previous count plus q and unique_count is unchanged if the product
\* was in the cart and one more if it was not.
C5_AddCounts ==
  [][ (AddStep /\ last'.quantity >= 1 /\ last'.outcome = "ok")
      => LET c == last'.cart
         IN  /\ Count(items'[c]) = Count(items[c]) + last'.quantity
             /\ UniqueCount(items'[c]) =
                  IF Contains(items[c], last'.product) THEN UniqueCount(items[c])
                  ELSE UniqueCount(items[c]) + 1 ]_vars

C5_Witness ==
  /\ last.op = "add"
  /\ last.branch = "present"
  /\ last.outcome = "ok"
  /\ last.quantity = 1
  /\ items[1][KeyOf(last.product)].quantity = 2
  /\ UniqueCount(items[1]) = 2

\* the last call wrote the session entry
LastCallWrote ==
  /\ last.op \in MutatingOps
  /\ last.outcome = "ok"
  /\ (last.op \in {"add", "clear"} \/ last.branch = "present")

AllResolvable(c) == \A k \in DOMAIN items[c] : items[c][k].product \in catalog

C7_ConstructDropsMissing ==
  [][ (ConstructStep /\ CART_SESSION_KEY \in DOMAIN session)
      => /\ last'.outcome = "ok"
         /\ DOMAIN items'[last'.cart] =
              { k \in DOMAIN session[CART_SESSION_KEY] :
                  StoredProduct(session[CART_SESSION_KEY][k]) \in catalog } ]_vars

\* C8: remove(product, product_type) returns without an error for every
\* product and every product_type argument, and contains(product) is false
\* right after it.
C8_RemoveThenNotContained ==
  [][ RemoveStep
      => (last'.outcome = "ok" /\ ~Contains(items'[last'.cart], last'.product)) ]_vars

\* the call reaches its `product in self.products` test
ReachesTest ==
  \/ last'.quantity >= 1 /\ AddStep
  \/ RemoveStep
  \/ RemoveSingleStep
  \/ last'.quantity >= 0 /\ SetQuantityStep

\* C9: contains(product) is true exactly when the composite key of the
\* product's type tag and id is a key of the item mapping; a successful add
\* leaves the product contained; add, remove, remove_single and set_quantity
\* take the already-present branch exactly for those products.
C9_ContainsIffKey ==
  /\ [](\A c \in CartIds : \A p \in AllProducts :
          Contains(items[c], p) <=> KeyOf(p) \in DOMAIN items[c])
  /\ [][ ReachesTest
         => /\ last'.branch = "present"
                 <=> KeyOf(last'.product) \in DOMAIN items[last'.cart]
            /\ (last'.op = "add" /\ last'.outcome = "ok")
                 => Contains(items'[last'.cart], last'.product) ]_vars

C9_Witness ==
  /\ last.op = "add"
  /\ last.branch = "absent"
  /\ last.outcome = "ok"
  /\ last.product = [cls |-> Resource, id |-> 1]
  /\ Contains(items[1], last.product)
  /\ ~Contains(items[1], [cls |-> Course, id |-> 1])
  /\ KeyOf(last.product) \in DOMAIN items[1]

\* C10: add without a price fails with the missing-price error when the
\* product is not in the cart, and succeeds, increasing the product's quantity
\* by the given quantity, when it is.
C10_AddWithoutPrice ==
  [][ (AddNoPriceStep /\ last'.quantity >= 1)
      => LET c == last'.cart
             p == last'.product
         IN  IF Contains(items[c], p)
             THEN /\ last'.outcome = "ok"
                  /\ items'[c][KeyOf(p)].quantity = items[c][KeyOf(p)].quantity + last'.quantity
             ELSE /\ last'.outcome = "ValueError_price"
                  /\ items' = items ]_vars

\* C11: while a product's entry stays in the cart, add (with or without a
\* price), remove_single and set_quantity never change the entry's price.
C11_PriceFixed ==
  [][ (AddStep \/ RemoveSingleStep \/ SetQuantityStep)
      => \A k \in DOMAIN items[last'.cart] \cap DOMAIN items'[last'.cart] :
           items'[last'.cart][k].price = items[last'.cart][k].price ]_vars

C11_Witness ==
  /\ last.op = "add"
  /\ last.branch = "present"
  /\ last.product = [cls |-> Resource, id |-> 1]
  /\ KeyOf(last.product) \in DOMAIN items[1]
  /\ items[1][KeyOf(last.product)].quantity = 2
  /\ items[1][KeyOf(last.product)].price = [coef |-> 999, exp |-> -2]

\* C12: remove_single on a product in the cart with quantity q deletes the
\* entry when q <= 1 and leaves it with quantity q - 1 otherwise; for q = 1
\* and q = 2 (every q >= 1) count drops by exactly 1.
C12_RemoveSingle ==
  [][ (RemoveSingleStep /\ Contains(items[last'.cart], last'.product))
      => LET c == last'.cart
             k == KeyOf(last'.product)
             q == items[c][k].quantity
         IN  /\ IF q <= 1 THEN k \notin DOMAIN items'[c]
                ELSE k \in DOMAIN items'[c] /\ items'[c][k].quantity = q - 1
             /\ q >= 1 => Count(items'[c]) = Count(items[c]) - 1 ]_vars

ValidationErrors == {"ValueError_quantity", "ValueError_price"}

\* C14: a call that ends in a validation error leaves the item mapping and
\* the session entry as they were, and the two quantity errors and the
\* missing-price error are the only errors a mutating call ends in.
C14_OnlyValidationErrors ==
  /\ [](last.op \in MutatingOps => last.outcome \in {"ok"} \cup ValidationErrors)
  /\ [][ (last'.op \in MutatingOps /\ catalog' = catalog
            /\ last'.outcome \in ValidationErrors)
         => (items' = items /\ session' = session /\ modified' = modified) ]_vars

\* C16: remove, remove_single and set_quantity (quantity >= 0) for a product
\* that is not in the cart return without an error, leave the item mapping
\* unchanged and neither write the session entry nor set its modified flag.
C16_AbsentNoOp ==
  [][ (/\ RemoveStep \/ RemoveSingleStep \/ (SetQuantityStep /\ last'.quantity >= 0)
       /\ ~Contains(items[last'.cart], last'.product))
      => /\ last'.outcome = "ok"
         /\ items' = items
         /\ session' = session
         /\ modified' = modified ]_vars

C16_Witness ==
  /\ last.op = "remove"
  /\ last.branch = "absent"
  /\ last.outcome = "ok"
  /\ ~Contains(items[1], last.product)
  /\ UniqueCount(items[1]) = 1
  /\ CART_SESSION_KEY \notin DOMAIN session
  /\ ~modified

\* C17: add, remove, remove_single and set_quantity called for product A
\* leave every other product B of the cart as it was: present or not, with
\* the same quantity and the same price.
C17_OtherProductsUntouched ==
  [][ (AddStep \/ RemoveStep \/ RemoveSingleStep \/ SetQuantityStep)
      => LET c == last'.cart
         IN  \A B \in AllProducts \ {last'.product} :
               /\ KeyOf(B) \in DOMAIN items[c] <=> KeyOf(B) \in DOMAIN items'[c]
               /\ KeyOf(B) \in DOMAIN items[c] \cap DOMAIN items'[c]
                    => /\ items'[c][KeyOf(B)].quantity = items[c][KeyOf(B)].quantity
                       /\ items'[c][KeyOf(B)].price = items[c][KeyOf(B)].price ]_vars

\* C18: after clear() unique_count is 0, count is 0, is_empty is true and the
\* session entry is the empty mapping; a second clear() leaves the items and
\* the session entry as they are.
C18_ClearEmpties ==
  last.op = "clear"
  => LET its == items[last.cart]
         again == ClearResult(its, session, modified)
     IN  /\ last.outcome = "ok"
         /\ UniqueCount(its) = 0
         /\ Count(its) = 0
         /\ IsEmpty(its)
         /\ CART_SESSION_KEY \in DOMAIN session
         /\ session[CART_SESSION_KEY] = EmptyDict
         /\ again.outcome = "ok"
         /\ again.items = its
         /\ again.session = session

C18_Witness ==
  /\ last.op = "clear"
  /\ last.outcome = "ok"
  /\ IsEmpty(items[1])
  /\ session[CART_SESSION_KEY] = EmptyDict
  /\ modified

\* C19: in every reachable state is_empty is true exactly when count is 0.
C19_EmptyIffCountZero ==
  \A c \in CartIds : IsEmpty(items[c]) <=> Count(items[c]) = 0

\* C20: constructing a cart leaves the session entry and the modified flag
\* as they are (the reads are operators on the items and have no effect), so
\* an entry of a deleted product is still in the session after construction.
C20_ConstructWritesNothing ==
  [][ ConstructStep => (session' = session /\ modified' = modified) ]_vars

C20_Witness ==
  /\ last.op = "construct"
  /\ CART_SESSION_KEY \in DOMAIN session
  /\ \E k \in DOMAIN session[CART_SESSION_KEY] :
       StoredProduct(session[CART_SESSION_KEY][k]) \notin catalog

\* C13: from an empty cart, for a product A and a price p:
\* add(A, price=p, quantity=2) gives count 2 and total 2p; add(A, quantity=1)
\* gives count 3 and total 3p; remove_single(A) gives count 2; remove(A)
\* gives is_empty; every step returns without an error.
C13_Scenario ==
  [][ /\ \A A \in AllProducts : \A p \in Prices :
           ScenarioAdd(A, p, 2)
           => /\ last'.outcome = "ok"
              /\ Count(items'[1]) = 2
              /\ DecimalEq(Total(items'[1]), DecimalTimes(p, 2))
      /\ (ScenarioAddAgain /\ Count(items[1]) = 2)
           => /\ last'.outcome = "ok"
              /\ Count(items'[1]) = 3
              /\ DecimalEq(Total(items'[1]),
                           DecimalTimes(items[1][KeyOf(last.product)].price, 3))
      /\ (ScenarioRemoveSingle /\ Count(items[1]) = 3)
           => (last'.outcome = "ok" /\ Count(items'[1]) = 2)
      /\ (ScenarioRemove /\ Count(items[1]) = 2)
           => (last'.outcome = "ok" /\ IsEmpty(items'[1])) ]_vars

\* C15 as stated: with two carts on one session, after any mutating call that
\* returns without an error the session entry is the serialization of the
\* items of the cart that made the call.
C15_StoreIsCallersItems ==
  (last.op \in MutatingOps /\ last.outcome = "ok")
  => /\ CART_SESSION_KEY \in DOMAIN session
     /\ session[CART_SESSION_KEY] = CartSerializable(items[last.cart])

\* C15, amended: with two carts on one session, after any add or clear, and
\* any remove, remove_single or set_quantity for a product that is in the
\* calling cart, that returns without an error, the session entry is the
\* serialization of the items of the calling cart alone, whatever the other
\* cart holds or wrote before.
C15_LastWriteWins ==
  LastCallWrote
  => /\ CART_SESSION_KEY \in DOMAIN session
     /\ session[CART_SESSION_KEY] = CartSerializable(items[last.cart])

\* the lost update: cart 1 holds resource 1, which it wrote to the session,
\* and the session entry after cart 2's add holds resource 2 alone
C15_Witness ==
  /\ last.cart = 2 /\ last.op = "add" /\ last.outcome = "ok"
  /\ alive[1]
  /\ DOMAIN items[1] = {FormatKey(Resource, 1)}
  /\ DOMAIN items[2] = {FormatKey(Resource, 2)}
  /\ DOMAIN session[CART_SESSION_KEY] = {FormatKey(Resource, 2)}

====
